---- MODULE Spec2Model ----
(***************************************************************************)
(* A model of apps/system/uorb/uORB/uORB.c: the client side of uORB.        *)
(*                                                                         *)
(* The callers (threads of Procs) run the library functions one system     *)
(* call at a time; the device namespace, the descriptor table and the      *)
(* sensor driver are the environment the calls act on.  Strings are        *)
(* sequences of one-character strings, so that snprintf's truncation is    *)
(* computed and not assumed.                                                *)
(*                                                                         *)
(* Conventions taken from the code itself: a failing open() returns a      *)
(* negative descriptor (line 79, 97), and the answer of a control request  *)
(* is the value ioctl() returns, the driver's "already exists" answer      *)
(* being the value -EEXIST the code compares with (line 88).               *)
(***************************************************************************)
EXTENDS Integers, Sequences, FiniteSets, TLC

\* ------------------------------------------------------------------ bounds

\* Instance numbers a caller may name are 0..MaxInst.
MaxInst == 1
\* Size of the descriptor table: at most MaxFd files are open at once.
MaxFd == 2
\* orb_group_count's loop is followed up to this instance number.
MaxProbe == 4
\* At most MaxPublish elements are published to a node in a run.
MaxPublish == 2

\* --------------------------------------------------------- program constants

\* errno values the code compares with or the calls answer with.
EEXIST == 17
ENOMEM == 12
EINVAL == 22
\* The failure value of open(), write() and the state query.
ERROR == -1
\* The timeout orb_check passes to poll(): the call never waits.
CheckTimeout == 0

\* char path[ORB_PATH_MAX]: the path budget, terminating NUL included.  Its
\* value is set in uORB.h; the model takes a budget of 16 characters.
ORB_PATH_MAX == 16

ORB_SENSOR_PATH == <<"/", "d", "e", "v", "/", "u", "o", "r", "b", "/">>
ORB_USENSOR_PATH == <<"/", "d", "e", "v", "/", "u", "s", "e", "n", "s", "o", "r">>

\* struct orb_metadata values the callers pass: a short topic name, and a
\* name so long that the instance number no longer fits in the path.
ShortMeta == [o_name |-> <<"a">>, o_size |-> 16]
LongMeta == [o_name |-> <<"g", "y", "r", "o", "s">>, o_size |-> 8]
Metas == {ShortMeta, LongMeta}
NoMeta == [o_name |-> <<>>, o_size |-> 0]

\* The two concurrent callers.
Procs == {1, 2}
Insts == 0..MaxInst
Fds == 0..(MaxFd - 1)
\* The unsigned queue_size arguments tried.
QueueSizes == {0, 2}

\* ------------------------------------------------------------------ strings

Min(a, b) == IF a < b THEN a ELSE b

Digit(d) == <<"0", "1", "2", "3", "4", "5", "6", "7", "8", "9">>[d + 1]

RECURSIVE Decimal(_)
\* printf's %d of a non-negative number.
Decimal(n) == IF n < 10 THEN <<Digit(n)>>
              ELSE Decimal(n \div 10) \o <<Digit(n % 10)>>

\* snprintf(buf, size, ...): at most size - 1 characters of the formatted text
\* are stored, the rest is dropped.
Snprintf(size, text) == SubSeq(text, 1, Min(Len(text), size - 1))

\* The text ORB_SENSOR_PATH"%s%d" formats, before it is stored.
FullPath(meta, instance) == ORB_SENSOR_PATH \o meta.o_name \o Decimal(instance)

\* The path orb_open and orb_exists use.
MakePath(meta, instance) == Snprintf(ORB_PATH_MAX, FullPath(meta, instance))

\* -------------------------------------------------------------------- state

VARIABLES
  topic,       \* the topic metadata the callers of this run pass
  depth,       \* the queue_size the advertisers of this run pass
  focus,       \* the instance the racing callers of this run open
  nodes,       \* the registered device nodes: path -> the driver's record
  open_files,  \* the descriptor table: a set of [fd, path, flags, owner]
  pc,          \* each caller's position
  op,          \* the public function each caller is in
  meta, instance, advertiser, queue_size, data,   \* arguments
  path, first_open, fd, ret,                      \* locals
  tmp,         \* the struct sensor_state_s a state query filled in
  state,       \* orb_get_state's output structure (NoState: a null pointer)
  result,      \* the value the public function returned
  log,         \* the system calls issued by the current call, in order
  nadv0,       \* advertisers of the path when orb_open was entered
  updated      \* the bool orb_check's updated argument points to

vars == <<topic, depth, focus, nodes, open_files, pc, op, meta, instance, advertiser, queue_size,
          data, path, first_open, fd, ret, tmp, state, result, log, nadv0, updated>>

NoPath == <<>>
NoResult == -100
NoRaw == [min_interval |-> 0, min_latency |-> 0, nbuffer |-> 0,
          nsubscribers |-> 0, nadvertisers |-> 0, generation |-> 0]
\* An output structure holding the value g in every field.
Filled(g) == [max_frequency |-> g, min_batch_interval |-> g, queue_size |-> g,
              nsubscribers |-> g, nadvertisers |-> g, generation |-> g]
NoState == Filled(-1)

\* -------------------------------------------------------------- environment

\* The descriptors on p opened for writing: the driver counts each as an
\* advertiser; those opened for reading it counts as subscribers.
NAdv(p) == Cardinality({f \in open_files : f.path = p /\ f.flags = "O_WRONLY"})
NSub(p) == Cardinality({f \in open_files : f.path = p /\ f.flags = "O_RDONLY"})

FreeFds == Fds \ {f.fd : f \in open_files}
\* open() answers with the lowest free descriptor.
LowestFd == CHOOSE f \in FreeFds : \A g \in FreeFds : f <= g

\* The generation of the node p, 0 for a path that is no topic node.
Generation(p) == IF p \in DOMAIN nodes THEN nodes[p].generation ELSE 0

\* A new descriptor starts at the node's current generation: nothing written
\* before the open is unread.
OpenFile(c, p, flags) ==
  open_files \cup {[fd |-> LowestFd, path |-> p, flags |-> flags, owner |-> c,
                    pos |-> Generation(p)]}
CloseFile(f) == {e \in open_files : e.fd # f}

\* The record SNIOC_GET_STATE reports for the node p.
RawState(p) ==
  [min_interval |-> nodes[p].min_interval, min_latency |-> nodes[p].min_latency,
   nbuffer |-> nodes[p].nbuffer, nsubscribers |-> NSub(p),
   nadvertisers |-> NAdv(p), generation |-> nodes[p].generation]

\* The node SNIOC_REGISTER creates from a struct sensor_reginfo_s.
NewNode(esize, nbuffer) ==
  [esize |-> esize, nbuffer |-> nbuffer, min_interval |-> 0, min_latency |-> 0,
   generation |-> 0, nuserpriv |-> 0, buffer |-> <<>>]

Issue(c, call) == log' = [log EXCEPT ![c] = Append(@, call)]
Issued(c, call) == \E i \in DOMAIN log[c] : log[c][i] = call
Count(c, call) == Cardinality({i \in DOMAIN log[c] : log[c][i] = call})

\* ------------------------------------------------------------------- Init

\* No caller is inside a call.
Idle ==
  /\ pc = [c \in Procs |-> "idle"]
  /\ op = [c \in Procs |-> "none"]
  /\ meta = [c \in Procs |-> NoMeta]
  /\ instance = [c \in Procs |-> 0]
  /\ advertiser = [c \in Procs |-> FALSE]
  /\ queue_size = [c \in Procs |-> 0]
  /\ data = [c \in Procs |-> FALSE]
  /\ path = [c \in Procs |-> NoPath]
  /\ first_open = [c \in Procs |-> FALSE]
  /\ fd = [c \in Procs |-> ERROR]
  /\ ret = [c \in Procs |-> 0]
  /\ tmp = [c \in Procs |-> NoRaw]
  /\ state = [c \in Procs |-> NoState]
  /\ result = [c \in Procs |-> NoResult]
  /\ log = [c \in Procs |-> <<>>]
  /\ nadv0 = [c \in Procs |-> 0]
  /\ updated = [c \in Procs |-> FALSE]

\* Nothing is registered and nothing is open.
Init ==
  /\ topic \in Metas
  /\ depth \in QueueSizes
  /\ focus \in Insts
  /\ nodes = <<>>
  /\ open_files = {}
  /\ Idle

\* ---------------------------------------------------------------- orb_open

\* What the caller of orb_open does with the value v it returned:
\* orb_subscribe_multi returns it, orb_advertise_multi_queue returns -1 for a
\* negative v and goes on to the initial publish when it was given data.
AfterOpenPc(c, v) ==
  IF op[c] = "advertise" /\ v >= 0 /\ data[c] THEN "adv_write" ELSE "done"
AfterOpenResult(c, v) ==
  IF op[c] = "advertise" /\ v >= 0 /\ data[c] THEN NoResult
  ELSE IF op[c] = "advertise" /\ v < 0 THEN -1 ELSE v

\* A variant of line 70: the node is registered by every open.
NodeAbsentAlways(r) == TRUE

\* if (ret < 0), of the answer of access().
NodeAbsent(r) == r < 0

\* snprintf of the path and access(path, F_OK).
OpenAccess(c) ==
  /\ pc[c] = "open_access"
  /\ LET p == MakePath(meta[c], instance[c])
         r == IF p \in DOMAIN nodes THEN 0 ELSE ERROR
     IN /\ path' = [path EXCEPT ![c] = p]
        /\ ret' = [ret EXCEPT ![c] = r]
        /\ nadv0' = [nadv0 EXCEPT ![c] = NAdv(p)]
        /\ pc' = [pc EXCEPT ![c] = IF NodeAbsent(r) THEN "open_ctl" ELSE "open_node"]
        /\ Issue(c, IF r < 0 THEN "access:err" ELSE "access:ok")
  /\ UNCHANGED <<nodes, open_files, op, meta, instance, advertiser, queue_size,
                 data, first_open, fd, tmp, state, result>>

\* fd = open(ORB_USENSOR_PATH, O_WRONLY); a negative fd is returned at once.
OpenCtl(c) ==
  /\ pc[c] = "open_ctl"
  /\ \/ /\ FreeFds # {}
        /\ open_files' = OpenFile(c, ORB_USENSOR_PATH, "O_WRONLY")
        /\ fd' = [fd EXCEPT ![c] = LowestFd]
        /\ pc' = [pc EXCEPT ![c] = "open_reg"]
        /\ Issue(c, "open_ctl:ok")
        /\ UNCHANGED result
     \/ /\ open_files' = open_files
        /\ fd' = [fd EXCEPT ![c] = ERROR]
        /\ pc' = [pc EXCEPT ![c] = AfterOpenPc(c, ERROR)]
        /\ result' = [result EXCEPT ![c] = AfterOpenResult(c, ERROR)]
        /\ Issue(c, "open_ctl:err")
  /\ UNCHANGED <<nodes, op, meta, instance, advertiser, queue_size, data, path,
                 first_open, ret, tmp, state, nadv0>>

\* ret = ioctl(fd, SNIOC_REGISTER, &reginfo): the driver creates the node, or
\* answers -EEXIST when the path is registered already, or fails otherwise.
Register(c) ==
  /\ pc[c] = "open_reg"
  /\ \/ /\ path[c] \notin DOMAIN nodes
        /\ nodes' = nodes @@ (path[c] :> NewNode(meta[c].o_size, queue_size[c]))
        /\ ret' = [ret EXCEPT ![c] = 0]
        /\ Issue(c, "register:ok")
     \/ /\ path[c] \in DOMAIN nodes
        /\ nodes' = nodes
        /\ ret' = [ret EXCEPT ![c] = -EEXIST]
        /\ Issue(c, "register:exist")
     \/ /\ nodes' = nodes
        /\ ret' = [ret EXCEPT ![c] = -ENOMEM]
        /\ Issue(c, "register:err")
  /\ pc' = [pc EXCEPT ![c] = "open_ctlclose"]
  /\ UNCHANGED <<open_files, op, meta, instance, advertiser, queue_size, data,
                 path, first_open, fd, tmp, state, result, nadv0>>

\* Variants of the test of line 88: every negative answer aborts the open, or
\* none does.
RegisterFailedAny(r) == r < 0
RegisterFailedNever(r) == FALSE

\* if (ret < 0 && ret != -EEXIST) return ret;
RegisterFailed(r) == r < 0 /\ r # -EEXIST

\* A variant of line 87: the control channel is closed only after a request
\* that succeeded.
CtlClosedOnSuccess(c) == IF ret[c] < 0 THEN open_files ELSE CloseFile(fd[c])

\* close(fd) of the control channel.
CtlClosed(c) == CloseFile(fd[c])

\* A variant of line 93: only the caller whose request created the node
\* counts as the first opener.
FirstOpenWinner(r) == r = 0

\* first_open = true; reached with any answer that did not abort the open.
FirstOpen(r) == TRUE

\* close(fd), then the test of the register request's answer.
CloseCtl(c) ==
  /\ pc[c] = "open_ctlclose"
  /\ open_files' = CtlClosed(c)
  /\ Issue(c, "close_ctl")
  /\ IF RegisterFailed(ret[c])
     THEN /\ pc' = [pc EXCEPT ![c] = AfterOpenPc(c, ret[c])]
          /\ result' = [result EXCEPT ![c] = AfterOpenResult(c, ret[c])]
          /\ UNCHANGED first_open
     ELSE /\ pc' = [pc EXCEPT ![c] = "open_node"]
          /\ first_open' = [first_open EXCEPT ![c] = FirstOpen(ret[c])]
          /\ UNCHANGED result
  /\ UNCHANGED <<nodes, op, meta, instance, advertiser, queue_size, data, path,
                 fd, ret, tmp, state, nadv0>>

\* A variant of line 109: the buffer-size request is sent by every open.
WantsBufferAlways(q) == TRUE

\* if (queue_size)
WantsBuffer(q) == q # 0

\* The position after a successful open of the node.
AfterNodePc(c, v) ==
  IF first_open[c] THEN "open_priv"
  ELSE IF WantsBuffer(queue_size[c]) THEN "open_buf" ELSE AfterOpenPc(c, v)

\* fd = open(path, O_CLOEXEC | (advertiser ? O_WRONLY : O_RDONLY)).
OpenNode(c) ==
  /\ pc[c] = "open_node"
  /\ \/ /\ path[c] \in DOMAIN nodes
        /\ FreeFds # {}
        /\ open_files' =
             OpenFile(c, path[c], IF advertiser[c] THEN "O_WRONLY" ELSE "O_RDONLY")
        /\ fd' = [fd EXCEPT ![c] = LowestFd]
        /\ pc' = [pc EXCEPT ![c] = AfterNodePc(c, LowestFd)]
        /\ result' = [result EXCEPT ![c] =
             IF AfterNodePc(c, LowestFd) = "done"
             THEN AfterOpenResult(c, LowestFd) ELSE NoResult]
        /\ Issue(c, "open:ok")
     \/ /\ open_files' = open_files
        /\ fd' = [fd EXCEPT ![c] = ERROR]
        /\ pc' = [pc EXCEPT ![c] = AfterOpenPc(c, ERROR)]
        /\ result' = [result EXCEPT ![c] = AfterOpenResult(c, ERROR)]
        /\ Issue(c, "open:err")
  /\ UNCHANGED <<nodes, op, meta, instance, advertiser, queue_size, data, path,
                 first_open, ret, tmp, state, nadv0>>

\* What the driver may answer to an attachment request.
IoctlResults == {0, ERROR}

\* A variant of line 114: a failed attachment request fails the open.
OpenValueChecked(f, r) == IF r < 0 THEN r ELSE f

\* return fd; the answers of the two attachment requests are assigned to
\* nothing.
OpenValue(f, r) == f

\* if (first_open) ioctl(fd, SNIOC_SET_USERPRIV, meta); the answer is dropped.
SetUserPriv(c) ==
  /\ pc[c] = "open_priv"
  /\ nodes' = [nodes EXCEPT ![path[c]].nuserpriv = @ + 1]
  /\ \E r \in IoctlResults :
       /\ Issue(c, IF r < 0 THEN "userpriv:err" ELSE "userpriv:ok")
       /\ LET v == OpenValue(fd[c], r)
              next == IF WantsBuffer(queue_size[c]) THEN "open_buf" ELSE AfterOpenPc(c, v)
          IN /\ pc' = [pc EXCEPT ![c] = next]
             /\ result' = [result EXCEPT ![c] =
                  IF next = "done" THEN AfterOpenResult(c, v) ELSE NoResult]
  /\ UNCHANGED <<open_files, op, meta, instance, advertiser, queue_size, data,
                 path, first_open, fd, ret, tmp, state, nadv0>>

\* if (queue_size) ioctl(fd, SNIOC_SET_BUFFER_NUMBER, queue_size); a request
\* the driver accepts sets the node's buffer depth to the number it carries;
\* the answer is dropped; then return fd.
SetBufferNumber(c) ==
  /\ pc[c] = "open_buf"
  /\ \E r \in IoctlResults :
       /\ Issue(c, IF r < 0 THEN "bufnum:err" ELSE "bufnum:ok")
       /\ nodes' = IF r < 0 THEN nodes
                   ELSE [nodes EXCEPT ![path[c]].nbuffer = queue_size[c]]
       /\ LET v == OpenValue(fd[c], r)
          IN /\ pc' = [pc EXCEPT ![c] = AfterOpenPc(c, v)]
             /\ result' = [result EXCEPT ![c] = AfterOpenResult(c, v)]
  /\ UNCHANGED <<open_files, op, meta, instance, advertiser, queue_size,
                 data, path, first_open, fd, ret, tmp, state, nadv0>>

\* ------------------------------------------- orb_exists, orb_group_count

\* What the caller of orb_exists does with the value v it returned: the
\* public call returns it; orb_group_count's loop goes on to the next
\* instance while v == 0 and returns the instance otherwise, to its caller or
\* to orb_advertise_multi_queue, which opens that instance.
AfterExistsPc(c, v) ==
  IF op[c] = "exists" THEN "done"
  ELSE IF v = 0 THEN "ex_open"
  ELSE IF op[c] = "group_count" THEN "done" ELSE "open_access"
\* A variant of line 313: the loop steps over every other instance.
AfterExistsInstanceStride(c, v) ==
  IF op[c] # "exists" /\ v = 0 THEN instance[c] + 2 ELSE instance[c]

\* ++instance; while orb_exists answers 0.
AfterExistsInstance(c, v) ==
  IF op[c] # "exists" /\ v = 0 THEN instance[c] + 1 ELSE instance[c]
\* A variant of line 316: the instance after the gap is returned.
AfterExistsResultNext(c, v) ==
  IF op[c] = "exists" THEN v
  ELSE IF op[c] = "group_count" /\ v # 0 THEN instance[c] + 1 ELSE NoResult

AfterExistsResult(c, v) ==
  IF op[c] = "exists" THEN v
  ELSE IF op[c] = "group_count" /\ v # 0 THEN instance[c] ELSE NoResult

\* snprintf of the path and fd = open(path, 0); -1 when it fails.
ExistsOpen(c) ==
  /\ pc[c] = "ex_open"
  /\ instance[c] <= MaxProbe
  /\ LET p == MakePath(meta[c], instance[c])
     IN /\ path' = [path EXCEPT ![c] = p]
        /\ \/ /\ p \in DOMAIN nodes
              /\ FreeFds # {}
              /\ open_files' = OpenFile(c, p, "0")
              /\ fd' = [fd EXCEPT ![c] = LowestFd]
              /\ pc' = [pc EXCEPT ![c] = "ex_query"]
              /\ Issue(c, "probe_open:ok")
              /\ UNCHANGED <<instance, result>>
           \/ /\ open_files' = open_files
              /\ fd' = [fd EXCEPT ![c] = ERROR]
              /\ pc' = [pc EXCEPT ![c] = AfterExistsPc(c, -1)]
              /\ instance' = [instance EXCEPT ![c] = AfterExistsInstance(c, -1)]
              /\ result' = [result EXCEPT ![c] = AfterExistsResult(c, -1)]
              /\ Issue(c, "probe_open:err")
  /\ UNCHANGED <<nodes, op, meta, advertiser, queue_size, data, first_open,
                 ret, tmp, state, nadv0>>

\* ret = ioctl(fd, SNIOC_GET_STATE, &state).
ExistsQuery(c) ==
  /\ pc[c] = "ex_query"
  /\ \/ /\ ret' = [ret EXCEPT ![c] = 0]
        /\ tmp' = [tmp EXCEPT ![c] = RawState(path[c])]
        /\ Issue(c, "get_state:ok")
     \/ /\ ret' = [ret EXCEPT ![c] = ERROR]
        /\ tmp' = tmp
        /\ Issue(c, "get_state:err")
  /\ pc' = [pc EXCEPT ![c] = "ex_close"]
  /\ UNCHANGED <<nodes, open_files, op, meta, instance, advertiser, queue_size,
                 data, path, first_open, fd, state, result, nadv0>>

\* A variant of line 304: a node that answers the query exists.
ExistsValuePresent(r, st) == IF r < 0 THEN -1 ELSE 0

\* if (ret < 0) return -1; return state.nadvertisers > 0 ? 0 : -1;
ExistsValue(r, st) == IF r < 0 THEN -1 ELSE IF st.nadvertisers > 0 THEN 0 ELSE -1

\* A variant of line 298: the descriptor is closed after the test of the
\* query's answer, which returns first when the query failed.
ProbeClosedOnSuccess(c) == IF ret[c] < 0 THEN open_files ELSE CloseFile(fd[c])

\* close(fd) of the descriptor orb_exists opened.
ProbeClosed(c) == CloseFile(fd[c])

\* close(fd), then the value orb_exists returns.
ExistsClose(c) ==
  /\ pc[c] = "ex_close"
  /\ open_files' = ProbeClosed(c)
  /\ Issue(c, "probe_close")
  /\ LET v == ExistsValue(ret[c], tmp[c])
     IN /\ pc' = [pc EXCEPT ![c] = AfterExistsPc(c, v)]
        /\ instance' = [instance EXCEPT ![c] = AfterExistsInstance(c, v)]
        /\ result' = [result EXCEPT ![c] = AfterExistsResult(c, v)]
  /\ UNCHANGED <<nodes, op, meta, advertiser, queue_size, data, path,
                 first_open, fd, ret, tmp, state, nadv0>>

\* ------------------------------------------------ orb_advertise_multi_queue

\* The lengths write() may answer with for a request of len bytes: all of it,
\* a part of it, or a failure.
WriteResults(len) == {len, len \div 2, ERROR}

\* A variant of line 146: only a failed write is a mismatch.
PublishMismatchError(r, size) == r < 0

\* if (ret != meta->o_size)
PublishMismatch(r, size) == r # size

\* ret = orb_publish_multi(fd, data, meta->o_size), a single write().
AdvWrite(c) ==
  /\ pc[c] = "adv_write"
  /\ \E r \in WriteResults(meta[c].o_size) :
       /\ ret' = [ret EXCEPT ![c] = r]
       /\ IF PublishMismatch(r, meta[c].o_size)
          THEN /\ pc' = [pc EXCEPT ![c] = "adv_close"]
               /\ UNCHANGED result
          ELSE /\ pc' = [pc EXCEPT ![c] = "done"]
               /\ result' = [result EXCEPT ![c] = fd[c]]
  /\ Issue(c, "write")
  /\ UNCHANGED <<nodes, open_files, op, meta, instance, advertiser, queue_size,
                 data, path, first_open, fd, tmp, state, nadv0>>

\* close(fd); return -1;
AdvClose(c) ==
  /\ pc[c] = "adv_close"
  /\ open_files' = CloseFile(fd[c])
  /\ Issue(c, "close")
  /\ pc' = [pc EXCEPT ![c] = "done"]
  /\ result' = [result EXCEPT ![c] = -1]
  /\ UNCHANGED <<nodes, op, meta, instance, advertiser, queue_size, data, path,
                 first_open, fd, ret, tmp, state, nadv0>>

\* ------------------------------------------------------------- the callers

Enter(c, name) == pc[c] = "idle" /\ op' = [op EXCEPT ![c] = name]

\* orb_advertise_multi_queue(meta, data, instance, queue_size), entered with
\* an initial payload (d) or without, for an instance of insts or, when auto,
\* with a null instance pointer: inst = instance ? *instance :
\* orb_group_count(meta), then orb_open.
AdvertiseCall(c, d, insts, auto) ==
  /\ Enter(c, "advertise")
  /\ meta' = [meta EXCEPT ![c] = topic]
  /\ data' = [data EXCEPT ![c] = d]
  /\ queue_size' = [queue_size EXCEPT ![c] = depth]
  /\ advertiser' = [advertiser EXCEPT ![c] = TRUE]
  /\ \E i \in insts : instance' = [instance EXCEPT ![c] = i]
  /\ pc' = [pc EXCEPT ![c] = IF auto THEN "ex_open" ELSE "open_access"]
  /\ UNCHANGED <<nodes, open_files, path, first_open, fd, ret, tmp, state,
                 result, log, nadv0>>

\* orb_advertise_multi_queue(meta, NULL, &instance, queue_size).
Advertise(c, insts) == AdvertiseCall(c, FALSE, insts, FALSE)

\* orb_advertise_multi_queue(meta, data, &instance, queue_size).
AdvertiseData(c, insts) == AdvertiseCall(c, TRUE, insts, FALSE)

\* orb_advertise_multi_queue(meta, NULL, NULL, queue_size): the instance is
\* the one orb_group_count answers, whose loop starts at 0.
AdvertiseAuto(c) == AdvertiseCall(c, FALSE, {0}, TRUE)

\* orb_subscribe_multi(meta, instance): orb_open(meta, false, instance, 0).
Subscribe(c, insts) ==
  /\ Enter(c, "subscribe")
  /\ \E m \in {topic}, i \in insts :
       /\ meta' = [meta EXCEPT ![c] = m]
       /\ instance' = [instance EXCEPT ![c] = i]
  /\ advertiser' = [advertiser EXCEPT ![c] = FALSE]
  /\ queue_size' = [queue_size EXCEPT ![c] = 0]
  /\ pc' = [pc EXCEPT ![c] = "open_access"]
  /\ UNCHANGED <<nodes, open_files, data, path, first_open, fd, ret, tmp,
                 state, result, log, nadv0>>

\* orb_exists(meta, instance).
Exists(c, insts) ==
  /\ Enter(c, "exists")
  /\ \E m \in {topic}, i \in insts :
       /\ meta' = [meta EXCEPT ![c] = m]
       /\ instance' = [instance EXCEPT ![c] = i]
  /\ pc' = [pc EXCEPT ![c] = "ex_open"]
  /\ UNCHANGED <<nodes, open_files, advertiser, queue_size, data, path,
                 first_open, fd, ret, tmp, state, result, log, nadv0>>

\* orb_group_count(meta): unsigned instance = 0, then the loop.
GroupCount(c) ==
  /\ Enter(c, "group_count")
  /\ \E m \in {topic} : meta' = [meta EXCEPT ![c] = m]
  /\ instance' = [instance EXCEPT ![c] = 0]
  /\ pc' = [pc EXCEPT ![c] = "ex_open"]
  /\ UNCHANGED <<nodes, open_files, advertiser, queue_size, data, path,
                 first_open, fd, ret, tmp, state, result, log, nadv0>>

\* The sessions the application holds: the descriptors no call is working on.
Sessions == {f \in open_files : f.owner = 0}

\* orb_unadvertise(fd) and orb_unsubscribe(fd): close(fd) of a session.
Close(c) ==
  /\ pc[c] = "idle"
  /\ \E f \in Sessions : open_files' = CloseFile(f.fd)
  /\ UNCHANGED <<nodes, pc, op, meta, instance, advertiser, queue_size, data,
                 path, first_open, fd, ret, tmp, state, result, log, nadv0>>

\* The call returns to the application, which from now on holds what the call
\* left open; the call's frame is gone.
Return(c) ==
  /\ pc[c] = "done"
  /\ open_files' = {IF f.owner = c THEN [f EXCEPT !.owner = 0] ELSE f : f \in open_files}
  /\ pc' = [pc EXCEPT ![c] = "idle"]
  /\ op' = [op EXCEPT ![c] = "none"]
  /\ meta' = [meta EXCEPT ![c] = NoMeta]
  /\ instance' = [instance EXCEPT ![c] = 0]
  /\ advertiser' = [advertiser EXCEPT ![c] = FALSE]
  /\ queue_size' = [queue_size EXCEPT ![c] = 0]
  /\ data' = [data EXCEPT ![c] = FALSE]
  /\ path' = [path EXCEPT ![c] = NoPath]
  /\ first_open' = [first_open EXCEPT ![c] = FALSE]
  /\ fd' = [fd EXCEPT ![c] = ERROR]
  /\ ret' = [ret EXCEPT ![c] = 0]
  /\ tmp' = [tmp EXCEPT ![c] = NoRaw]
  /\ state' = [state EXCEPT ![c] = NoState]
  /\ result' = [result EXCEPT ![c] = NoResult]
  /\ log' = [log EXCEPT ![c] = <<>>]
  /\ nadv0' = [nadv0 EXCEPT ![c] = 0]
  /\ UNCHANGED nodes

\* -------------------------------------------------------------- orb_get_state

\* A variant of line 201: the interval taken for milliseconds.
MaxFrequencyMs(min_interval) ==
  IF min_interval # 0 THEN 1000 \div min_interval ELSE 0

\* state->max_frequency = tmp.min_interval ? 1000000 / tmp.min_interval : 0;
MaxFrequency(min_interval) ==
  IF min_interval # 0 THEN 1000000 \div min_interval ELSE 0

\* The assignments of orb_get_state to *state after a successful query.
Project(st, raw) ==
  [st EXCEPT !.max_frequency = MaxFrequency(raw.min_interval),
             !.min_batch_interval = raw.min_latency,
             !.queue_size = raw.nbuffer,
             !.nsubscribers = raw.nsubscribers,
             !.generation = raw.generation]

\* What an output structure the caller did not initialise may hold.
Garbage == {0, 77}

\* A variant of line 189: the output pointer is not tested.
NullStateUnchecked(st) == FALSE

\* if (!state) return -EINVAL;
NullState(st) == st = NoState

\* orb_get_state(fd, state) on a session, with a null or a non-null state.
GetState(c) ==
  /\ Enter(c, "get_state")
  /\ \E f \in Sessions, st \in {NoState} \cup {Filled(g) : g \in Garbage} :
       /\ fd' = [fd EXCEPT ![c] = f.fd]
       /\ path' = [path EXCEPT ![c] = f.path]
       /\ state' = [state EXCEPT ![c] = st]
       /\ pc' = [pc EXCEPT ![c] = IF NullState(st) THEN "done" ELSE "gs_query"]
       /\ result' = [result EXCEPT ![c] = IF NullState(st) THEN -EINVAL ELSE NoResult]
  /\ UNCHANGED <<nodes, open_files, meta, instance, advertiser, queue_size,
                 data, first_open, ret, tmp, log, nadv0>>

\* ret = ioctl(fd, SNIOC_GET_STATE, &tmp); a negative ret is returned, else the
\* fields of *state are assigned and ret is returned.
GetStateQuery(c) ==
  /\ pc[c] = "gs_query"
  /\ \/ /\ ret' = [ret EXCEPT ![c] = 0]
        /\ tmp' = [tmp EXCEPT ![c] = RawState(path[c])]
        /\ state' = [state EXCEPT ![c] = Project(@, RawState(path[c]))]
        /\ result' = [result EXCEPT ![c] = 0]
        /\ Issue(c, "get_state:ok")
     \/ /\ ret' = [ret EXCEPT ![c] = ERROR]
        /\ result' = [result EXCEPT ![c] = ERROR]
        /\ UNCHANGED <<tmp, state>>
        /\ Issue(c, "get_state:err")
  /\ pc' = [pc EXCEPT ![c] = "done"]
  /\ UNCHANGED <<nodes, open_files, op, meta, instance, advertiser, queue_size,
                 data, path, first_open, fd, nadv0>>

\* ------------------------------------------------- data transfer, orb_check

\* The elements written to the node of the session f that f has not read.
Unread(f) == nodes[f.path].generation - f.pos

\* The slots of the node's ring buffer: nbuffer, and one when none was asked.
Capacity(p) == IF nodes[p].nbuffer > 0 THEN nodes[p].nbuffer ELSE 1

\* The buffer after one more element: the oldest is dropped from a full ring.
Pushed(p, e) ==
  LET b == Append(nodes[p].buffer, e)
  IN IF Len(b) > Capacity(p) THEN Tail(b) ELSE b

\* orb_publish_multi(fd, data, len) on an advertiser session: one write() of
\* one element, which makes the node's next generation.
Publish(c) ==
  /\ pc[c] = "idle"
  /\ \E f \in Sessions :
       /\ f.flags = "O_WRONLY"
       /\ nodes[f.path].generation < MaxPublish
       /\ nodes' = [nodes EXCEPT ![f.path].generation = @ + 1,
                                 ![f.path].buffer = Pushed(f.path, nodes[f.path].generation + 1)]
  /\ UNCHANGED <<open_files, pc, op, meta, instance, advertiser, queue_size,
                 data, path, first_open, fd, ret, tmp, state, result, log,
                 nadv0, updated>>

\* orb_copy_multi(fd, buffer, len) on a subscriber session: one read(), which
\* takes the next unread element when there is one.
Copy(c) ==
  /\ pc[c] = "idle"
  /\ \E f \in Sessions :
       /\ f.flags = "O_RDONLY"
       /\ Unread(f) > 0
       /\ open_files' = (open_files \ {f}) \cup {[f EXCEPT !.pos = @ + 1]}
  /\ UNCHANGED <<nodes, pc, op, meta, instance, advertiser, queue_size, data,
                 path, first_open, fd, ret, tmp, state, result, log, nadv0,
                 updated>>

\* orb_check(fd, updated) on a session; *updated holds whatever the caller
\* left in it.
Check(c) ==
  /\ Enter(c, "check")
  /\ \E f \in Sessions, u \in BOOLEAN :
       /\ fd' = [fd EXCEPT ![c] = f.fd]
       /\ path' = [path EXCEPT ![c] = f.path]
       /\ updated' = [updated EXCEPT ![c] = u]
  /\ pc' = [pc EXCEPT ![c] = "ck_poll"]
  /\ UNCHANGED <<nodes, open_files, meta, instance, advertiser, queue_size,
                 data, first_open, ret, tmp, state, result, log, nadv0>>

\* The events poll() may report for the session f asked for POLLIN: POLLIN
\* when an element is unread, and an error condition of the device or none.
Revents(f) ==
  {(IF Unread(f) > 0 THEN {"POLLIN"} ELSE {}) \cup e : e \in {{}, {"POLLERR"}}}

\* A variant of line 224: any reported event counts as an update.
UpdatedAny(revents) == revents # {}

\* *updated = (fds[0].revents & POLLIN) > 0;
Updated(revents) == "POLLIN" \in revents

\* ret = poll(fds, 1, timeout): poll returns at once when the timeout is 0 and
\* otherwise only when an event is there; a negative ret is answered with -1
\* and *updated is not written.
CheckPoll(c) ==
  /\ pc[c] = "ck_poll"
  /\ \E f \in {g \in open_files : g.fd = fd[c]} :
       \/ /\ ret' = [ret EXCEPT ![c] = ERROR]
          /\ result' = [result EXCEPT ![c] = -1]
          /\ UNCHANGED updated
       \/ \E ev \in Revents(f) :
            /\ CheckTimeout = 0 \/ ev # {}
            /\ ret' = [ret EXCEPT ![c] = IF ev = {} THEN 0 ELSE 1]
            /\ updated' = [updated EXCEPT ![c] = Updated(ev)]
            /\ result' = [result EXCEPT ![c] = 0]
  /\ Issue(c, "poll")
  /\ pc' = [pc EXCEPT ![c] = "done"]
  /\ UNCHANGED <<nodes, open_files, op, meta, instance, advertiser, queue_size,
                 data, path, first_open, fd, tmp, state, nadv0>>

\* -------------------------------------------------------- the specifications

\* A step inside orb_open, or a return.
InOpen(c) ==
  \/ OpenAccess(c) \/ OpenCtl(c) \/ Register(c) \/ CloseCtl(c) \/ OpenNode(c)
  \/ SetUserPriv(c) \/ SetBufferNumber(c)
  \/ Return(c)

\* A step inside orb_exists and the loop of orb_group_count.
InProbe(c) == ExistsOpen(c) \/ ExistsQuery(c) \/ ExistsClose(c)

\* Two callers open and close sessions on one topic instance, in any
\* interleaving.
Race(c) ==
  \/ Advertise(c, {focus}) \/ Subscribe(c, {focus}) \/ Close(c)
  \/ InOpen(c)

Next == \E c \in Procs : Race(c) /\ UNCHANGED <<topic, depth, focus, updated>>

Spec == Init /\ [][Next]_vars

\* One caller alone makes every call on every instance, so that the topic
\* state is fixed while a call runs.
Alone(c) ==
  \/ Advertise(c, Insts) \/ AdvertiseData(c, Insts) \/ AdvertiseAuto(c)
  \/ Subscribe(c, Insts) \/ Close(c)
  \/ Exists(c, Insts) \/ GroupCount(c)
  \/ InOpen(c) \/ InProbe(c)
  \/ AdvWrite(c) \/ AdvClose(c)

NextSeq == Alone(1) /\ UNCHANGED <<topic, depth, focus, updated>>

InitSeq ==
  /\ topic \in Metas
  /\ depth \in QueueSizes
  /\ focus = 0
  /\ nodes = <<>>
  /\ open_files = {}
  /\ Idle

SpecSeq == InitSeq /\ [][NextSeq]_vars

\* The descriptors of other processes: they are not in this process's table
\* and are never closed by it.
Foreign(p, k) ==
  [fd |-> -k, path |-> p, flags |-> "O_WRONLY", owner |-> -1, pos |-> 0]

\* The instances that may be registered when an enumeration starts.
CountInsts == 0..(MaxProbe - 1)

\* Any set of registered instances of the topic, each with or without an
\* advertiser in another process.
InitCount ==
  /\ topic \in Metas
  /\ depth = 0
  /\ focus = 0
  /\ Idle
  /\ \E how \in [CountInsts -> {"absent", "idle", "advertised"}] :
       /\ nodes = [p \in {MakePath(topic, i) : i \in {j \in CountInsts : how[j] # "absent"}}
                     |-> NewNode(topic.o_size, 0)]
       /\ open_files = {Foreign(MakePath(topic, i), i + 1) :
                          i \in {j \in CountInsts : how[j] = "advertised"}}

\* One caller probes and enumerates a topic nobody changes meanwhile.
NextCount ==
  /\ \/ Exists(1, CountInsts) \/ GroupCount(1)
     \/ InProbe(1) \/ Return(1)
  /\ UNCHANGED <<topic, depth, focus, updated>>

SpecCount == InitCount /\ [][NextCount]_vars

\* The values of the driver's registers tried.
Intervals == {0, 1, 3, 1000, 999999, 1000000, 1000001, 2147483647}
Latencies == {0, 5000}
Depths == {1, 4}
Generations == {0, 42}

\* A registered instance with any register values, a subscriber session of
\* this process on it and up to two advertisers elsewhere.
InitState ==
  /\ topic = ShortMeta
  /\ depth = 0
  /\ focus = 0
  /\ Idle
  /\ \E i \in Intervals, l \in Latencies, n \in Depths, g \in Generations :
       nodes = [p \in {MakePath(topic, 0)} |->
                  [NewNode(topic.o_size, n) EXCEPT !.min_interval = i,
                     !.min_latency = l, !.generation = g]]
  /\ \E k \in 0..2 :
       open_files = {Foreign(MakePath(topic, 0), j) : j \in 1..k}
         \cup {[fd |-> 0, path |-> MakePath(topic, 0), flags |-> "O_RDONLY",
                owner |-> 0, pos |-> 0]}

\* One caller queries the state of its session.
NextState ==
  /\ GetState(1) \/ GetStateQuery(1) \/ Return(1)
  /\ UNCHANGED <<topic, depth, focus, updated>>

SpecState == InitState /\ [][NextState]_vars

\* A registered instance on which this process holds a subscriber session
\* and an advertiser session.
InitCheck ==
  /\ topic \in Metas
  /\ depth \in QueueSizes
  /\ focus = 0
  /\ Idle
  /\ nodes = [p \in {MakePath(topic, 0)} |-> NewNode(topic.o_size, depth)]
  /\ open_files =
       {[fd |-> 0, path |-> MakePath(topic, 0), flags |-> "O_RDONLY",
         owner |-> 0, pos |-> 0],
        [fd |-> 1, path |-> MakePath(topic, 0), flags |-> "O_WRONLY",
         owner |-> 0, pos |-> 0]}

\* One caller publishes, reads and asks whether its sessions were updated.
NextCheck ==
  /\ \/ Publish(1) \/ Copy(1)
     \/ Check(1) \/ CheckPoll(1)
     \/ Return(1) /\ UNCHANGED updated
  /\ UNCHANGED <<topic, depth, focus>>

SpecCheck == InitCheck /\ [][NextCheck]_vars

\* Two callers advertise without naming an instance, in any interleaving.
RaceAuto(c) == AdvertiseAuto(c) \/ InProbe(c) \/ InOpen(c)

NextAuto == \E c \in Procs : RaceAuto(c) /\ UNCHANGED <<topic, depth, focus, updated>>

SpecAuto == InitSeq /\ [][NextAuto]_vars

\* The enumeration under a scheduler that lets a call in progress take its
\* next step: each call of the library is synchronous, so a system call that
\* can return does.
SpecCountFair == SpecCount /\ WF_vars(NextCount)

\* ------------------------------------------------------------- properties

OpenDone(c) == pc[c] = "done" /\ op[c] \in {"advertise", "subscribe"}
ExistsDone(c) == pc[c] = "done" /\ op[c] = "exists"
GroupCountDone(c) == pc[c] = "done" /\ op[c] = "group_count"
GetStateDone(c) == pc[c] = "done" /\ op[c] = "get_state"

\* The existence check of orb_open found the node absent.
Cold(c) == Issued(c, "open_ctl:ok") \/ Issued(c, "open_ctl:err")
\* The control channel could not be opened, or the register request failed
\* for another reason than -EEXIST.
RegistrationFault(c) == Issued(c, "open_ctl:err") \/ Issued(c, "register:err")
\* The open of the node failed.
OpenFault(c) == Issued(c, "open:err")
\* The open of the node was attempted.
OpenTried(c) == Issued(c, "open:ok") \/ Issued(c, "open:err")
Attached(c) == Issued(c, "userpriv:ok") \/ Issued(c, "userpriv:err")
Sized(c) == Issued(c, "bufnum:ok") \/ Issued(c, "bufnum:err")

ControlFiles == {f \in open_files : f.path = ORB_USENSOR_PATH}
FilesOf(c) == {f \in open_files : f.owner = c}

\* C1: when two orb_open calls race on an instance whose node is absent and
\* neither the control channel nor the open of the node fails, every call
\* returns a descriptor (>= 0) that is open on the one node of the path, at
\* most one of them having created it; -EEXIST is never a call's result.
C1_IdempotentRegistration ==
  /\ \A c \in Procs :
       OpenDone(c) =>
         /\ result[c] # -EEXIST
         /\ (Cold(c) /\ ~RegistrationFault(c) /\ ~OpenFault(c)) =>
              /\ result[c] >= 0
              /\ path[c] \in DOMAIN nodes
              /\ \E f \in FilesOf(c) : f.fd = result[c] /\ f.path = path[c]
  /\ \A c, d \in Procs :
       (c # d /\ path[c] = path[d] /\ Issued(c, "register:ok")) =>
         ~Issued(d, "register:ok")

\* Both callers found the node absent, one created it, the other was answered
\* -EEXIST, and both hold a descriptor.
C1_Witness ==
  /\ OpenDone(1) /\ OpenDone(2)
  /\ path[1] = path[2]
  /\ Issued(1, "register:ok") /\ Issued(2, "register:exist")
  /\ result[1] >= 0 /\ result[2] >= 0 /\ result[1] # result[2]

\* C2: orb_exists returns 0 exactly when the open and the state query
\* succeeded and the reported advertiser count is positive; with the topic
\* state fixed that count is the number of advertisers of the node, so a
\* node without advertisers does not exist and one with an advertiser does.
C2_ExistsIsAdvertiserCount ==
  \A c \in Procs :
    ExistsDone(c) =>
      /\ result[c] \in {0, -1}
      /\ result[c] = 0 <=>
           /\ Issued(c, "probe_open:ok")
           /\ Issued(c, "get_state:ok")
           /\ tmp[c].nadvertisers > 0
      /\ Issued(c, "get_state:ok") => tmp[c].nadvertisers = NAdv(path[c])
      /\ path[c] \notin DOMAIN nodes => result[c] = -1

\* A registered node that the probe opened and queried, without an
\* advertiser: it does not exist.
C2_Witness ==
  /\ ExistsDone(1)
  /\ path[1] \in DOMAIN nodes
  /\ Issued(1, "get_state:ok")
  /\ NAdv(path[1]) = 0
  /\ NSub(path[1]) > 0
  /\ result[1] = -1

\* The last probe of the call opened the node and was answered.
LastProbeAnswered(c) ==
  /\ Len(log[c]) >= 2
  /\ log[c][Len(log[c])] = "probe_close"
  /\ log[c][Len(log[c]) - 1] = "get_state:ok"

\* C3: with the topic state fixed, orb_group_count returns a k such that
\* every instance below k has an advertiser and instance k was probed and
\* found not to exist: it has no advertiser, or its probe failed.
C3_GroupCountFirstGap ==
  \A c \in Procs :
    GroupCountDone(c) =>
      /\ result[c] >= 0
      /\ \A j \in 0..(result[c] - 1) :
           /\ MakePath(meta[c], j) \in DOMAIN nodes
           /\ NAdv(MakePath(meta[c], j)) > 0
      /\ path[c] = MakePath(meta[c], result[c])
      /\ LastProbeAnswered(c) => NAdv(path[c]) = 0

\* Instances 0 and 1 have an advertiser, 2 has none, 3 has one: the count
\* is 2.
C3_Witness ==
  /\ GroupCountDone(1)
  /\ result[1] = 2
  /\ NAdv(MakePath(meta[1], 0)) > 0 /\ NAdv(MakePath(meta[1], 1)) > 0
  /\ NAdv(MakePath(meta[1], 2)) = 0 /\ NAdv(MakePath(meta[1], 3)) > 0

\* C4: an advertise call given an initial payload returns a descriptor only
\* if the write answered the element size; after any other answer it returns
\* -1, has no descriptor left open, and the advertiser count of the instance
\* is what it was when the open began.
C4_AdvertisePublishAtomic ==
  \A c \in Procs :
    (pc[c] = "done" /\ op[c] = "advertise" /\ data[c]) =>
      /\ result[c] >= 0 =>
           /\ Issued(c, "write") /\ ret[c] = meta[c].o_size
           /\ \E f \in FilesOf(c) : f.fd = result[c] /\ f.flags = "O_WRONLY"
      /\ (Issued(c, "write") /\ ret[c] # meta[c].o_size) =>
           /\ result[c] = -1
           /\ FilesOf(c) = {}
           /\ NAdv(path[c]) = nadv0[c]

\* A short write: half of the element was transferred, the call failed.
C4_Witness ==
  /\ pc[1] = "done" /\ op[1] = "advertise" /\ data[1]
  /\ Issued(1, "open:ok") /\ Issued(1, "write") /\ Issued(1, "close")
  /\ ret[1] = meta[1].o_size \div 2
  /\ result[1] = -1

\* C5: a path that does not fit ORB_PATH_MAX is never used: whenever a
\* register request has been sent for a path, or a node has been opened by
\* orb_open or orb_exists, that path is the whole <root><name><instance>.
C5_PathTooLongFails ==
  \A c \in Procs :
    pc[c] \in {"open_ctlclose", "open_priv", "open_buf", "ex_query"} =>
      path[c] = FullPath(meta[c], instance[c])

\* C6: after a successful orb_get_state every field of *state other than the
\* frequency holds the driver's value, nadvertisers included.
C6_StateProjection ==
  \A c \in Procs :
    (GetStateDone(c) /\ result[c] >= 0) =>
      /\ state[c].min_batch_interval = tmp[c].min_latency
      /\ state[c].queue_size = tmp[c].nbuffer
      /\ state[c].nsubscribers = tmp[c].nsubscribers
      /\ state[c].nadvertisers = tmp[c].nadvertisers
      /\ state[c].generation = tmp[c].generation

\* C7: after a successful orb_get_state, max_frequency is 0 for a reported
\* min_interval of 0 and otherwise the integer quotient of 1000000 by it.
C7_FrequencyInversion ==
  \A c \in Procs :
    (GetStateDone(c) /\ result[c] >= 0) =>
      LET m == tmp[c].min_interval
          f == state[c].max_frequency
      IN /\ m = nodes[path[c]].min_interval
         /\ m = 0 => f = 0
         /\ m > 0 => f >= 0 /\ f * m <= 1000000 /\ 1000000 - f * m < m
         /\ m = 1000 => f = 1000

\* The driver reports an interval of 0 and the frequency is 0.
C7_Witness ==
  /\ GetStateDone(1) /\ result[1] = 0
  /\ tmp[1].min_interval = 0
  /\ state[1].max_frequency = 0

\* C8: the device of an instance receives SNIOC_SET_USERPRIV at most once,
\* however many callers open the instance (the "never more than once" half of
\* "exactly once").
C8_MetadataAttachedOnce ==
  \A p \in DOMAIN nodes : nodes[p].nuserpriv <= 1

\* C9: a descriptor of the control channel is open only in the caller that is
\* between its open and its close inside orb_open; none is open in a caller
\* that has returned, on whatever path.
C9_ControlChannelReleased ==
  /\ \A f \in ControlFiles :
       /\ f.owner \in Procs
       /\ pc[f.owner] \in {"open_reg", "open_ctlclose"}
       /\ fd[f.owner] = f.fd
  /\ \A c \in Procs :
       Cardinality({f \in ControlFiles : f.owner = c}) <= 1

\* A register request failed, the caller has returned and no descriptor of
\* the control channel is open.
C9_Witness ==
  /\ pc[1] = "done"
  /\ Issued(1, "register:err") /\ Issued(1, "close_ctl")
  /\ ControlFiles = {}

\* C10: once the control channel failed to open or the register request
\* failed for another reason than -EEXIST, the call does nothing but close the
\* control channel and return a negative value: no open of the node, no
\* metadata or buffer-size request, no descriptor left, no second attempt.
C10_RegistrationFailureAborts ==
  \A c \in Procs :
    RegistrationFault(c) =>
      /\ pc[c] \in {"open_ctlclose", "done"}
      /\ pc[c] = "done" => result[c] < 0 /\ FilesOf(c) = {}
      /\ ~OpenTried(c) /\ ~Attached(c) /\ ~Sized(c)
      /\ Count(c, "open_ctl:ok") + Count(c, "open_ctl:err") = 1
      /\ Count(c, "register:err") <= 1
      /\ Count(c, "access:err") = 1 /\ Count(c, "access:ok") = 0

\* The register request failed with -ENOMEM and the subscriber was returned
\* that value.
C10_Witness ==
  /\ pc[1] = "done" /\ op[1] = "subscribe"
  /\ Issued(1, "register:err")
  /\ result[1] = -ENOMEM
  /\ path[1] \notin DOMAIN nodes

\* C11: once the open of the node has succeeded, orb_open returns that
\* descriptor whatever SNIOC_SET_USERPRIV and SNIOC_SET_BUFFER_NUMBER answer:
\* the value returned is the descriptor the open answered, it is not negative
\* and the descriptor is still open on the node, from the open to the return.
C11_AttachmentFailuresAbsorbed ==
  \A c \in Procs :
    (op[c] \in {"advertise", "subscribe"} /\ Issued(c, "open:ok")) =>
      /\ fd[c] >= 0
      /\ \E f \in FilesOf(c) : f.fd = fd[c] /\ f.path = path[c]
      /\ pc[c] \in {"open_priv", "open_buf", "done"}
      /\ pc[c] = "done" => result[c] = fd[c]

\* Both attachment requests failed and the advertiser holds its descriptor.
C11_Witness ==
  /\ OpenDone(1) /\ op[1] = "advertise"
  /\ Issued(1, "open:ok")
  /\ Issued(1, "userpriv:err") /\ Issued(1, "bufnum:err")
  /\ result[1] >= 0
  /\ \E f \in FilesOf(1) : f.fd = result[1] /\ f.flags = "O_WRONLY"

CheckDone(c) == pc[c] = "done" /\ op[c] = "check"
\* The session an orb_check call was made on.
CheckedFile(c) == CHOOSE f \in open_files : f.fd = fd[c]

\* The poll of orb_check returns without an event when nothing is unread, and
\* with one when an element is.
CheckAnswers(c) ==
  /\ CheckPoll(c)
  /\ result'[c] = 0
  /\ ret'[c] = IF Unread(CheckedFile(c)) > 0 THEN 1 ELSE 0

\* C12: orb_check never waits and consumes nothing: in every state its poll
\* can return at once, with no event when nothing is unread; it is issued
\* once; a call that returns 0 has set *updated to whether the session has an
\* unread element; and no step of the call changes a read position, a buffer
\* or a generation counter (nodes, open_files).
C12_CheckNonBlockingNonConsuming ==
  /\ [](\A c \in Procs :
          /\ pc[c] = "ck_poll" => ENABLED CheckAnswers(c)
          /\ CheckDone(c) =>
               /\ Count(c, "poll") = 1 /\ Len(log[c]) = 1
               /\ result[c] \in {0, -1}
               /\ result[c] = 0 => (updated[c] <=> Unread(CheckedFile(c)) > 0))
  /\ [][\A c \in Procs :
          (op[c] = "check" \/ op'[c] = "check") =>
            UNCHANGED <<nodes, open_files>>]_vars

\* A subscriber session with nothing unread, after an element was published
\* and read: the call wrote false over the caller's true.
C12_Witness ==
  /\ CheckDone(1) /\ result[1] = 0
  /\ CheckedFile(1).flags = "O_RDONLY"
  /\ nodes[path[1]].generation > 0
  /\ Unread(CheckedFile(1)) = 0
  /\ ~updated[1]

\* C13: orb_get_state given a null state returns -EINVAL and issues no
\* request; given an output structure it issues SNIOC_GET_STATE once and
\* nothing else, and when the request fails it returns the negative answer
\* and the structure holds in every field what the caller left there.
C13_GetStateArgumentAndFailure ==
  \A c \in Procs :
    GetStateDone(c) =>
      /\ state[c] = NoState => result[c] = -EINVAL /\ log[c] = <<>>
      /\ state[c] # NoState =>
           /\ Len(log[c]) = 1
           /\ Count(c, "get_state:ok") + Count(c, "get_state:err") = 1
      /\ Issued(c, "get_state:err") =>
           /\ result[c] < 0 /\ result[c] = ret[c]
           /\ state[c] \in {Filled(g) : g \in Garbage}

\* The call with a null state: -EINVAL, and the driver was not asked.
C13_Witness ==
  /\ GetStateDone(1)
  /\ state[1] = NoState
  /\ result[1] = -EINVAL
  /\ log[1] = <<>>

\* The register request of the call was answered 0 or -EEXIST.
Registered(c) == Issued(c, "register:ok") \/ Issued(c, "register:exist")

\* C14: a call whose access() found no node and whose register request was
\* answered 0 or -EEXIST has first_open set once the control channel is
\* closed, and after a successful open of the node it issues
\* SNIOC_SET_USERPRIV, once and next after the open; so does the caller that
\* was answered -EEXIST.
C14_FirstOpenFromProbe ==
  \A c \in Procs :
    (op[c] \in {"advertise", "subscribe"} /\ Registered(c)) =>
      /\ Cold(c) /\ ret[c] \in {0, -EEXIST}
      /\ Issued(c, "close_ctl") => first_open[c]
      /\ Issued(c, "open:ok") =>
           \/ pc[c] = "open_priv" /\ ~Attached(c)
           \/ /\ Count(c, "userpriv:ok") + Count(c, "userpriv:err") = 1
              /\ \E i \in DOMAIN log[c] :
                   /\ log[c][i] = "open:ok"
                   /\ log[c][i + 1] \in {"userpriv:ok", "userpriv:err"}
      /\ Issued(c, "open:err") => ~Attached(c)

\* The caller that lost the registration race has attached the metadata.
C14_Witness ==
  /\ OpenDone(2)
  /\ Issued(1, "register:ok") /\ Issued(2, "register:exist")
  /\ first_open[2]
  /\ Attached(2)
  /\ result[2] >= 0

\* access() found the node of the call's path.
Warm(c) == Issued(c, "access:ok")

\* The system calls of an orb_open call that found its node: the open of the
\* path and, after it succeeded and for a non-zero queue_size, the
\* buffer-size request.
WarmCalls(q) ==
  {<<"access:ok", "open:err">>} \cup
  (IF q # 0 THEN {<<"access:ok", "open:ok", b>> : b \in {"bufnum:ok", "bufnum:err"}}
   ELSE {<<"access:ok", "open:ok">>})

\* C15: an orb_open call whose access() found the node never opens the
\* control channel, sends no register request and no SNIOC_SET_USERPRIV: all
\* it issues is the open of the path, write-only for an advertiser and
\* read-only for a subscriber, and then SNIOC_SET_BUFFER_NUMBER when queue_size
\* is not 0.
C15_WarmPathSkipsRegistration ==
  \A c \in Procs :
    (op[c] \in {"advertise", "subscribe"} /\ Warm(c)) =>
      /\ ~Cold(c) /\ ~Registered(c) /\ ~Issued(c, "register:err")
      /\ ~Issued(c, "close_ctl") /\ ~Attached(c) /\ ~first_open[c]
      /\ {f \in ControlFiles : f.owner = c} = {}
      /\ \E w \in WarmCalls(queue_size[c]) :
           /\ Len(log[c]) <= Len(w)
           /\ log[c] = SubSeq(w, 1, Len(log[c]))
           /\ pc[c] = "done" => log[c] = w
      /\ \A f \in FilesOf(c) :
           /\ f.path = path[c]
           /\ f.flags = IF advertiser[c] THEN "O_WRONLY" ELSE "O_RDONLY"

\* An advertiser opened a node a subscriber had registered: an open and a
\* buffer-size request, nothing else.
C15_Witness ==
  /\ OpenDone(1) /\ op[1] = "advertise"
  /\ Warm(1)
  /\ queue_size[1] # 0
  /\ Len(log[1]) = 3
  /\ result[1] >= 0
  /\ NSub(path[1]) > 0

\* C16: an orb_open call issues SNIOC_SET_BUFFER_NUMBER exactly when its
\* queue_size is not 0 and its open of the node succeeded: then once, first
\* opener or not, and an accepted request leaves the node with that depth;
\* never for a queue_size of 0.  orb_subscribe_multi passes 0, so a
\* subscriber sends none and the node it registers has depth 0.
C16_BufferSizeIffQueueSize ==
  /\ [](\A c \in Procs :
          op[c] \in {"advertise", "subscribe"} =>
            /\ op[c] = "subscribe" => queue_size[c] = 0
            /\ queue_size[c] = 0 => ~Sized(c)
            /\ Sized(c) =>
                 /\ Issued(c, "open:ok")
                 /\ Count(c, "bufnum:ok") + Count(c, "bufnum:err") = 1
            /\ (pc[c] = "done" /\ queue_size[c] # 0 /\ Issued(c, "open:ok")) =>
                 Sized(c))
  /\ [][\A c \in Procs :
          /\ (pc[c] = "open_buf" /\ Issued(c, "bufnum:ok")') =>
               nodes'[path[c]].nbuffer = queue_size[c]
          /\ (pc[c] = "open_reg" /\ Issued(c, "register:ok")') =>
               nodes'[path[c]].nbuffer = queue_size[c]]_vars

\* An advertiser that was not the first opener sized the buffer of a node a
\* subscriber had registered with depth 0.
C16_Witness ==
  /\ OpenDone(1) /\ op[1] = "advertise"
  /\ ~first_open[1]
  /\ Issued(1, "bufnum:ok")
  /\ nodes[path[1]].nbuffer = queue_size[1] /\ queue_size[1] > 0
  /\ NSub(path[1]) > 0

\* The call c is in is orb_exists or orb_group_count.
Probing(c) == op[c] \in {"exists", "group_count"}
\* The descriptors that are not the one a call of c works on.
FilesBeside(c) == {f \in open_files : f.owner # c}

\* C17: orb_exists and orb_group_count change nothing: no step of theirs
\* changes the registered nodes, the advertiser or subscriber count of any
\* path, or a descriptor other than the probe's own, and once they return the
\* probe's descriptor is closed, so that the open descriptors are those of
\* before the call, whatever the outcome of the open and of the query.
C17_ProbeSideEffectFree ==
  /\ [](\A c \in Procs :
          (Probing(c) /\ pc[c] = "done") =>
            /\ FilesOf(c) = {}
            /\ \A f \in open_files : f.flags # "0")
  /\ [][\A c \in Procs :
          (Probing(c) \/ Probing(c)') =>
            /\ nodes' = nodes
            /\ FilesBeside(c)' = FilesBeside(c)
            /\ \A p \in DOMAIN nodes : NAdv(p)' = NAdv(p) /\ NSub(p)' = NSub(p)]_vars

\* The state query of a probe failed while the caller holds a session: the
\* probe answered -1 and its descriptor is closed.
C17_Witness ==
  /\ ExistsDone(1)
  /\ Issued(1, "probe_open:ok") /\ Issued(1, "get_state:err")
  /\ result[1] = -1
  /\ Sessions # {}
  /\ FilesOf(1) = {}

\* The advertiser sessions that calls have returned.
AdvertiserSessions ==
  {f \in open_files :
     /\ f.flags = "O_WRONLY" /\ f.path # ORB_USENSOR_PATH
     /\ f.owner = 0 \/ (f.owner \in Procs /\ pc[f.owner] = "done")}

\* C18: no two advertiser sessions returned by calls of
\* orb_advertise_multi_queue with a null instance pointer are on the same
\* instance.
C18_AutoInstancesDistinct ==
  \A f, g \in AdvertiserSessions : f # g => f.path # g.path

\* The descriptors on topic nodes that orb_open calls have returned.
ReturnedSessions ==
  {f \in open_files :
     /\ f.path \in DOMAIN nodes
     /\ f.owner = 0 \/ (f.owner \in Procs /\ OpenDone(f.owner))}

\* C19: whenever an orb_open call has returned a descriptor on a node, the
\* node's device has been sent SNIOC_SET_USERPRIV.
C19_SessionImpliesAttached ==
  \A f \in ReturnedSessions : nodes[f.path].nuserpriv >= 1

\* The instance k has no advertiser: its node is absent or has none.
Gap(m, k) ==
  MakePath(m, k) \notin DOMAIN nodes \/ NAdv(MakePath(m, k)) = 0
\* The existence probes a call has made.
Probes(c) == Count(c, "probe_open:ok") + Count(c, "probe_open:err")
\* The last probe of the call failed at the open or at the query.
LastProbeFailed(c) ==
  /\ log[c] # <<>>
  /\ \/ log[c][Len(log[c])] = "probe_open:err"
     \/ /\ Len(log[c]) >= 2
        /\ log[c][Len(log[c]) - 1] = "get_state:err"

\* C20: with the topic state fixed, an orb_group_count call returns once
\* some instance within reach has no advertiser; when it returns k it has
\* made k + 1 probes, one per instance 0..k, every instance below k has an
\* advertiser and k has none or its probe failed; each probe makes one open
\* and closes the descriptor it got, so at most one is open at a time and
\* none at the return.
C20_GroupCountTerminates ==
  /\ [](\A c \in Procs :
          op[c] = "group_count" =>
            /\ Cardinality(FilesOf(c)) <= 1
            /\ Count(c, "probe_close") <= Count(c, "probe_open:ok")
            /\ Count(c, "probe_open:ok") <= Count(c, "probe_close") + 1
            /\ pc[c] = "done" =>
                 /\ Probes(c) = result[c] + 1
                 /\ Count(c, "probe_close") = Count(c, "probe_open:ok")
                 /\ FilesOf(c) = {}
                 /\ \A j \in 0..(result[c] - 1) : ~Gap(meta[c], j)
                 /\ Gap(meta[c], result[c]) \/ LastProbeFailed(c))
  /\ \A c \in Procs :
       (op[c] = "group_count" /\ \E k \in 0..MaxProbe : Gap(meta[c], k))
         ~> GroupCountDone(c)

\* Instance 0 has an advertiser and instance 1 a node without one: the count
\* is 1 after two probes, each of which opened and closed a descriptor.
C20_Witness ==
  /\ GroupCountDone(1)
  /\ result[1] = 1
  /\ Probes(1) = 2
  /\ Count(1, "probe_open:ok") = 2 /\ Count(1, "probe_close") = 2
  /\ ~LastProbeFailed(1)
  /\ open_files # {}
====
